---- MODULE Spec2Model ----
(***************************************************************************)
(* Model of DbSyncer::sync_to_head (eth-parser/src/traits.rs) together     *)
(* with the slot insertion it relies on (kiln-postgres NewSlot::upsert).   *)
(*                                                                         *)
(* An Option<u64> is modelled as a set: {} is None, {h} is Some(h).        *)
(* The database table is a function from heights to the stored data, or    *)
(* NoEntry where no row exists.                                            *)
(***************************************************************************)
EXTENDS Integers, FiniteSets, Sequences, TLC

\* Highest block height of the model.
MaxHeight == 2
\* Highest number of elapsed, not yet consumed, ticks of the interval.
MaxTicksDue == 1
\* Highest number of direct NewSlot::upsert / insert calls in a run.
MaxCalls == 2
\* Width in bits of the model's u64, i64 and usize (64 in the program, scaled
\* down to keep the values enumerable).
WordBits == 4

Heights == 0..MaxHeight
Data == {"a", "b"}
NoEntry == "empty"
OptHeight == {{}} \cup {{h} : h \in Heights}

VARIABLES
    store,        \* the slots table: height -> data or NoEntry
    nodeHead,     \* the head height the node currently reports
    stable,       \* TRUE once the node head is fixed and operations succeed
    ticksDue,     \* ticks of sync_interval that elapsed and were not consumed
    pc,           \* the await point sync_to_head is suspended at
    fromParam,    \* the `from` argument of sync_to_head (line 43)
    from,         \* `let mut from = from` (line 45)
    from_height,  \* bump: from_height (line 48)
    db_read,      \* bump: outcome of get_db_height() in this pass
    chain_height, \* bump: chain_height (line 50)
    height,       \* bump: the for loop's height (line 62)
    entry,        \* bump: result of the last create_new_entry(height) (line 63)
    slot,         \* create_new_entry: data of the last slot handed to upsert
    result,       \* the outcome of bump matched by the loop (lines 72-79), "none"
                  \* before the first pass and while a pass runs
    head,         \* the head in Ok(head) returned by bump, None otherwise
    running,      \* number of bump futures in flight
    store0,       \* the table as it was when the current/last pass started
    interval_duration, \* the `interval_duration` argument of sync_to_head (line 43)
    cancel_requested,  \* a shutdown has been requested (sync_to_head takes no
                       \* such signal: its only arguments are `from` and the interval)
    calls,        \* NewSlot::upsert / insert calls made directly on the table
    new_slot,     \* a NewSlot built by NewSlot::new and read back
    nft           \* one evaluation of inner_get_packed_nft

vars == <<store, nodeHead, stable, ticksDue, pc, fromParam, from, from_height,
          db_read, chain_height, height, entry, slot, result, head, running, store0,
          interval_duration, cancel_requested, calls, new_slot, nft>>

\* the sync_to_head arguments and signals no step of the loop changes
args == <<interval_duration, cancel_requested>>

\* the state of the operations outside sync_to_head
outside == <<calls, new_slot, nft>>

\* SyncError and the other errors create_new_entry / get_node_height return.
FetchErrors == {"NothingAtHeight", "PendingBlock", "TransportError"}
CreateErrors == FetchErrors \cup {"StorageError"}
Results == {"none", "Ok", "NodeError"} \cup CreateErrors

----------------------------------------------------------------------------
\* The table

Stored(s) == {h \in DOMAIN s : s[h] # NoEntry}

MaxOf(S) == CHOOSE x \in S : \A y \in S : y <= x

DbMax(s) == MaxOf(Stored(s))

GapFree(s) == \A h \in DOMAIN s : s[h] # NoEntry => \A g \in 0..h : s[g] # NoEntry

\* a slot insertion that replaces the row on conflict (ON CONFLICT DO UPDATE)
upsert_Overwrite(s, h, d) ==
    [rows |-> [s EXCEPT ![h] = d], affected |-> 1]

\* NewSlot::upsert: INSERT ... ON CONFLICT DO NOTHING, returns the affected rows.
upsert(s, h, d) ==
    IF s[h] = NoEntry
    THEN [rows |-> [s EXCEPT ![h] = d], affected |-> 1]
    ELSE [rows |-> s, affected |-> 0]

\* an insert that ignores a conflict (the statement of upsert)
insert_IgnoreConflict(s, h, d) ==
    IF s[h] = NoEntry
    THEN [ok |-> TRUE, rows |-> [s EXCEPT ![h] = d], affected |-> 1]
    ELSE [ok |-> TRUE, rows |-> s, affected |-> 0]

\* NewSlot::insert: plain INSERT, "Fail in case of conflict": the statement
\* fails on an existing row and changes nothing.
insert(s, h, d) ==
    IF s[h] = NoEntry
    THEN [ok |-> TRUE, rows |-> [s EXCEPT ![h] = d], affected |-> 1]
    ELSE [ok |-> FALSE, rows |-> s, affected |-> 0]

----------------------------------------------------------------------------
\* Collaborators (trait methods without a body in the trait)

DbOk(h) == [ok |-> TRUE, v |-> h]
DbErr == [ok |-> FALSE, v |-> 0]

\* get_db_height(): Result<u64, Error>. An empty table has no highest block, so
\* it is an Err; a read of a non-empty table may fail while the system is not stable.
get_db_height ==
    IF Stored(store) = {}
    THEN {DbErr}
    ELSE {DbOk(DbMax(store))} \cup (IF stable THEN {} ELSE {DbErr})

\* get_node_height(): Result<u64, Error>.
get_node_height ==
    {DbOk(nodeHead)} \cup (IF stable THEN {} ELSE {DbErr})

\* create_new_entry(height): fetch the data from the node, then store it with
\* upsert. Each outcome: the Result returned, the table afterwards, the slot built.
create_new_entry(h) ==
    LET fetchFailed == {[res |-> e, rows |-> store, slot |-> NoEntry] : e \in FetchErrors}
        writeFailed == {[res |-> "StorageError", rows |-> store, slot |-> d] : d \in Data}
        written     == {[res |-> "Ok", rows |-> upsert(store, h, d).rows, slot |-> d] : d \in Data}
    IN  written \cup (IF stable THEN {} ELSE fetchFailed \cup writeFailed)

----------------------------------------------------------------------------
\* sync_to_head

\* Durations: zero and a positive period
Durations == {0, 1}

\* an interval that accepts a zero period (a ticker that fires at once, forever)
interval_Unchecked(period) == TRUE

\* time::interval(interval_duration): tokio asserts that the period is non-zero
\* and panics otherwise
interval(period) == period > 0

\* a loop that stops taking ticks once a shutdown is requested
TickReady_Cancellable(p, t) == p = "tick" /\ t > 0 /\ ~cancel_requested

\* `from` read without being consumed
take_Keep(f) == f

\* from.take()
take(f) == {}

\* the start of an empty table resolved as if height 0 were stored
\* (map_or(1, ..), or unwrap_or_default() + 1)
FromHeight_EmptyAtOne(f, db) ==
    IF f # {} THEN CHOOSE h \in f : TRUE
    ELSE IF db.ok THEN db.v + 1 ELSE 1

\* from.unwrap_or_else(|| self.get_db_height().map_or(0, |slot| slot + 1))
FromHeight(f, db) ==
    IF f # {} THEN CHOOSE h \in f : TRUE
    ELSE IF db.ok THEN db.v + 1 ELSE 0

\* bump without the early return
CaughtUp_Never(s, H) == FALSE

\* if from_height == chain_height { return Ok(chain_height) }
CaughtUp(s, H) == s = H

\* a range that also runs when the start is above the head (both ends swapped
\* into order)
Range_Unordered(s, H) == {h \in Nat : (s <= h /\ h < H + 1) \/ (H <= h /\ h < s + 1)}

\* from_height..chain_height + 1
Range(s, H) == {h \in Nat : s <= h /\ h < H + 1}

\* the error of create_new_entry dropped instead of propagated
Propagates_Never(res) == FALSE

\* the `?` after create_new_entry(height).await
Propagates(res) == res # "Ok"

\* a loop that leaves on the first error (bump(..).await? in the loop body)
LoopContinues_OkOnly(res) == res = "Ok"

\* loop { tick; match bump(..) { Ok => info!, Err => warn! } }: both arms fall
\* through to the next iteration.
LoopContinues(res) == TRUE

\* a loop that starts bump on every tick without awaiting the previous one
TickReady_NoAwait(p, t) == t > 0

\* the loop reaches sync_interval.tick().await only after bump(..).await returned
TickReady(p, t) == p = "tick" /\ t > 0

AfterPass(res) == IF LoopContinues(res) THEN "tick" ELSE "returned"

\* let mut sync_interval = time::interval(interval_duration): the interval is
\* created, its first tick due at once, or the call panics and sync_to_head unwinds
Start ==
    /\ pc = "start"
    /\ IF interval(interval_duration)
       THEN pc' = "tick" /\ ticksDue' = 1
       ELSE pc' = "panicked" /\ UNCHANGED ticksDue
    /\ UNCHANGED <<store, nodeHead, stable, fromParam, from, from_height, db_read,
                   chain_height, height, entry, slot, result, head, running, store0>>
    /\ UNCHANGED <<args, outside>>

\* sync_interval.tick().await completes; bump(from.take()) runs up to
\* self.get_node_height().await
Tick ==
    /\ TickReady(pc, ticksDue)
    /\ ticksDue' = ticksDue - 1
    /\ \E db \in get_db_height :
         /\ from_height' = FromHeight(from, db)
         /\ db_read' = IF from # {} THEN "skipped" ELSE IF db.ok THEN "Ok" ELSE "Err"
    /\ from' = take(from)
    /\ pc' = "get_node_height"
    /\ running' = running + 1
    /\ chain_height' = 0
    /\ height' = from_height'
    /\ entry' = "none"
    /\ slot' = NoEntry
    /\ result' = "none"
    /\ head' = {}
    /\ store0' = store
    /\ UNCHANGED <<store, nodeHead, stable, fromParam>>
    /\ UNCHANGED <<args, outside>>

\* self.get_node_height().await? fails: bump returns the error, the loop warns
GetNodeHeightErr ==
    /\ pc = "get_node_height"
    /\ \E r \in get_node_height : ~r.ok
    /\ result' = "NodeError"
    /\ pc' = AfterPass("NodeError")
    /\ running' = running - 1
    /\ UNCHANGED <<store, nodeHead, stable, ticksDue, fromParam, from, from_height,
                   db_read, chain_height, height, entry, slot, head, store0>>
    /\ UNCHANGED <<args, outside>>

\* self.get_node_height().await? returns the head; bump runs up to the first
\* create_new_entry(height).await, or returns Ok(chain_height)
GetNodeHeightOk ==
    /\ pc = "get_node_height"
    /\ \E r \in get_node_height :
         /\ r.ok
         /\ chain_height' = r.v
         /\ IF CaughtUp(from_height, r.v) \/ from_height \notin Range(from_height, r.v)
            THEN /\ result' = "Ok"
                 /\ head' = {r.v}
                 /\ pc' = AfterPass("Ok")
                 /\ running' = running - 1
            ELSE /\ pc' = "create_new_entry"
                 /\ UNCHANGED <<result, head, running>>
    /\ UNCHANGED <<store, nodeHead, stable, ticksDue, fromParam, from, from_height,
                   db_read, height, entry, slot, store0>>
    /\ UNCHANGED <<args, outside>>

\* self.create_new_entry(height).await? returns; the for loop goes on to the
\* next height, or bump returns
CreateNewEntry ==
    /\ pc = "create_new_entry"
    /\ height \in Heights
    /\ \E out \in create_new_entry(height) :
         /\ store' = out.rows
         /\ slot' = out.slot
         /\ entry' = out.res
         /\ IF Propagates(out.res)
            THEN /\ result' = out.res
                 /\ pc' = AfterPass(out.res)
                 /\ running' = running - 1
                 /\ UNCHANGED <<height, head>>
            ELSE /\ height' = height + 1
                 /\ IF height + 1 \in Range(from_height, chain_height)
                    THEN UNCHANGED <<pc, result, head, running>>
                    ELSE /\ result' = "Ok"
                         /\ head' = {chain_height}
                         /\ pc' = AfterPass("Ok")
                         /\ running' = running - 1
    /\ UNCHANGED <<nodeHead, stable, ticksDue, fromParam, from, from_height,
                   db_read, chain_height, store0>>
    /\ UNCHANGED <<args, outside>>

----------------------------------------------------------------------------
\* Environment

\* the period of sync_interval elapses (missed ticks are kept, up to the bound)
TimerFire ==
    /\ pc \notin {"start", "panicked"}
    /\ ticksDue < MaxTicksDue
    /\ ticksDue' = ticksDue + 1
    /\ UNCHANGED <<store, nodeHead, stable, pc, fromParam, from, from_height, db_read,
                   chain_height, height, entry, slot, result, head, running, store0>>
    /\ UNCHANGED <<args, outside>>

\* the node reports another head
NodeHeadChange ==
    /\ ~stable
    /\ \E h \in Heights : h # nodeHead /\ nodeHead' = h
    /\ UNCHANGED <<store, stable, ticksDue, pc, fromParam, from, from_height, db_read,
                   chain_height, height, entry, slot, result, head, running, store0>>
    /\ UNCHANGED <<args, outside>>

\* from now on the node head stays where it is and no operation fails
Settle ==
    /\ ~stable
    /\ stable' = TRUE
    /\ UNCHANGED <<store, nodeHead, ticksDue, pc, fromParam, from, from_height, db_read,
                   chain_height, height, entry, slot, result, head, running, store0>>
    /\ UNCHANGED <<args, outside>>

\* a shutdown is requested
RequestCancel ==
    /\ ~cancel_requested
    /\ cancel_requested' = TRUE
    /\ UNCHANGED <<store, nodeHead, stable, ticksDue, pc, fromParam, from, from_height,
                   db_read, chain_height, height, entry, slot, result, head, running,
                   store0, interval_duration>>
    /\ UNCHANGED outside

----------------------------------------------------------------------------

\* The table before sync_to_head is called: rows 0..k-1, any data.
InitStores ==
    {s \in [Heights -> Data \cup {NoEntry}] : GapFree(s)}

Init ==
    /\ store \in InitStores
    /\ nodeHead \in Heights
    /\ stable = FALSE
    /\ ticksDue = 0
    /\ pc = "start"
    /\ fromParam \in OptHeight
    /\ from = fromParam
    /\ from_height = 0
    /\ db_read = "skipped"
    /\ chain_height = 0
    /\ height = 0
    /\ entry = "none"
    /\ slot = NoEntry
    /\ result = "none"
    /\ head = {}
    /\ running = 0
    /\ store0 = store
    /\ interval_duration \in Durations
    /\ cancel_requested = FALSE
    /\ calls = << >>
    /\ new_slot = "none"
    /\ nft = "none"

Next ==
    \/ Start
    \/ Tick
    \/ GetNodeHeightErr
    \/ GetNodeHeightOk
    \/ CreateNewEntry
    \/ TimerFire
    \/ NodeHeadChange
    \/ Settle
    \/ RequestCancel

Spec == Init /\ [][Next]_vars

\* The runtime resumes every await that can complete, and the interval keeps firing.
FairSpec ==
    /\ Spec
    /\ WF_vars(Start)
    /\ WF_vars(Tick)
    /\ WF_vars(GetNodeHeightOk)
    /\ WF_vars(CreateNewEntry)
    /\ WF_vars(TimerFire)

TypeOK ==
    /\ store \in [Heights -> Data \cup {NoEntry}]
    /\ nodeHead \in Heights
    /\ stable \in BOOLEAN
    /\ ticksDue \in 0..MaxTicksDue
    /\ pc \in {"start", "panicked", "tick", "get_node_height", "create_new_entry"}
    /\ fromParam \in OptHeight
    /\ from \in OptHeight
    /\ from_height \in 0..(MaxHeight + 1)
    /\ db_read \in {"skipped", "Ok", "Err"}
    /\ chain_height \in Heights
    /\ height \in 0..(MaxHeight + 1)
    /\ entry \in {"none", "Ok"} \cup CreateErrors
    /\ slot \in Data \cup {NoEntry}
    /\ result \in Results
    /\ head \in OptHeight
    /\ running \in 0..1
    /\ store0 \in [Heights -> Data \cup {NoEntry}]
    /\ interval_duration \in Durations
    /\ cancel_requested \in BOOLEAN

----------------------------------------------------------------------------
\* NewSlot::upsert and NewSlot::insert called directly on the slots table

\* the variables of sync_to_head other than the table
sync == <<nodeHead, stable, ticksDue, pc, fromParam, from, from_height, db_read,
          chain_height, height, entry, slot, result, head, running, store0>>

\* sync_to_head is not running
SyncIdle ==
    /\ nodeHead = 0
    /\ stable = TRUE
    /\ ticksDue = 0
    /\ pc = "start"
    /\ fromParam = {}
    /\ from = {}
    /\ from_height = 0
    /\ db_read = "skipped"
    /\ chain_height = 0
    /\ height = 0
    /\ entry = "none"
    /\ slot = NoEntry
    /\ result = "none"
    /\ head = {}
    /\ running = 0
    /\ interval_duration = 1
    /\ cancel_requested = FALSE

\* NewSlot::new(spec, h, d).upsert(conn)
UpsertCall ==
    /\ Len(calls) < MaxCalls
    /\ \E h \in Heights, d \in Data :
         LET r == upsert(store, h, d) IN
         /\ store' = r.rows
         /\ calls' = Append(calls, [op |-> "upsert", height |-> h, data |-> d,
                                    ok |-> TRUE, affected |-> r.affected,
                                    before |-> store, after |-> r.rows])
    /\ UNCHANGED <<sync, args, new_slot, nft>>

\* NewSlot::new(spec, h, d).insert(conn)
InsertCall ==
    /\ Len(calls) < MaxCalls
    /\ \E h \in Heights, d \in Data :
         LET r == insert(store, h, d) IN
         /\ store' = r.rows
         /\ calls' = Append(calls, [op |-> "insert", height |-> h, data |-> d,
                                    ok |-> r.ok, affected |-> r.affected,
                                    before |-> store, after |-> r.rows])
    /\ UNCHANGED <<sync, args, new_slot, nft>>

SlotInit ==
    /\ SyncIdle
    /\ store \in [Heights -> Data \cup {NoEntry}]
    /\ store0 = store
    /\ calls = << >>
    /\ new_slot = "none"
    /\ nft = "none"

SlotNext ==
    \/ UpsertCall
    \/ InsertCall

SlotSpec == SlotInit /\ [][SlotNext]_vars

\* C11: an upsert for a height not yet stored adds the row and returns 1; a
\* later upsert for the same height, with the same or other data, succeeds,
\* returns 0 and leaves the entry of the first call in the Store.
C11_IdempotentUpsert ==
    \A i \in 1..Len(calls) :
        (calls[i].op = "upsert" /\ calls[i].before[calls[i].height] = NoEntry) =>
            /\ calls[i].ok /\ calls[i].affected = 1
            /\ calls[i].after[calls[i].height] = calls[i].data
            /\ \A j \in (i + 1)..Len(calls) :
                  (calls[j].op = "upsert" /\ calls[j].height = calls[i].height) =>
                      /\ calls[j].ok /\ calls[j].affected = 0
                      /\ calls[j].after = calls[j].before
                      /\ store[calls[i].height] = calls[i].data

\* two upserts for one height, the second with other data than the first
C11_Witness ==
    /\ Len(calls) = 2
    /\ calls[1].op = "upsert" /\ calls[2].op = "upsert"
    /\ calls[1].height = calls[2].height
    /\ calls[1].before[calls[1].height] = NoEntry
    /\ calls[1].data # calls[2].data

\* C16: an insert for a height already stored returns an error and leaves the
\* rows unchanged; an insert for a height not yet stored adds exactly one row.
C16_InsertFailsOnConflict ==
    \A i \in 1..Len(calls) :
        calls[i].op = "insert" =>
            IF calls[i].before[calls[i].height] # NoEntry
            THEN ~calls[i].ok /\ calls[i].after = calls[i].before
            ELSE /\ calls[i].ok /\ calls[i].affected = 1
                 /\ calls[i].after[calls[i].height] = calls[i].data
                 /\ Stored(calls[i].after) = Stored(calls[i].before) \cup {calls[i].height}
                 /\ \A h \in Stored(calls[i].before) : calls[i].after[h] = calls[i].before[h]

\* an insert added a row and a second insert for the same height failed
C16_Witness ==
    /\ Len(calls) = 2
    /\ calls[1].op = "insert" /\ calls[2].op = "insert"
    /\ calls[1].height = calls[2].height
    /\ calls[1].ok /\ ~calls[2].ok


----------------------------------------------------------------------------
\* NewSlot::new, NewSlot::height, NewSlot::validators_count

U64 == 0..(2^WordBits - 1)
I64 == (0 - 2^(WordBits - 1))..(2^(WordBits - 1) - 1)

\* `x as i64` of an unsigned word: the same bits read as two's complement
as_i64(u) == IF u >= 2^(WordBits - 1) THEN u - 2^WordBits ELSE u

\* a checked conversion that gives 0 for a negative value
as_u64_Saturating(i) == IF i < 0 THEN 0 ELSE i

\* `x as u64` of a signed word: the same bits read as unsigned
as_u64(i) == i % (2^WordBits)

\* NewSlot::new(spec, height, validators_count)
NewSlot_new(spec, h, c) ==
    [spec |-> spec, height |-> as_i64(h), validators_count |-> {as_i64(x) : x \in c}]

\* NewSlot::height(&self)
NewSlot_height(ns) == as_u64(ns.height)

\* NewSlot::validators_count(&self)
NewSlot_validators_count(ns) == {as_u64(x) : x \in ns.validators_count}

\* the table is empty and untouched
TableIdle ==
    /\ store = [h \in Heights |-> NoEntry]
    /\ store0 = store
    /\ calls = << >>

NoSlot == [spec |-> "", height |-> 0, validators_count |-> {}]

NewSlotInit ==
    /\ SyncIdle
    /\ TableIdle
    /\ nft = "none"
    /\ \E h \in U64, c \in {{}} \cup {{x} : x \in U64} :
         new_slot = [stage |-> "args", arg_height |-> h, arg_count |-> c,
                     slot |-> NoSlot, height |-> {}, validators_count |-> {}]

\* let s = NewSlot::new(spec, h, c)
NewSlotBuild ==
    /\ new_slot.stage = "args"
    /\ new_slot' = [new_slot EXCEPT
                      !.stage = "built",
                      !.slot = NewSlot_new("kiln", new_slot.arg_height, new_slot.arg_count)]
    /\ UNCHANGED <<store, sync, args, calls, nft>>

\* s.height(), s.validators_count()
NewSlotRead ==
    /\ new_slot.stage = "built"
    /\ new_slot' = [new_slot EXCEPT
                      !.stage = "read",
                      !.height = {NewSlot_height(new_slot.slot)},
                      !.validators_count = NewSlot_validators_count(new_slot.slot)]
    /\ UNCHANGED <<store, sync, args, calls, nft>>

NewSlotNext ==
    \/ NewSlotBuild
    \/ NewSlotRead

NewSlotSpec == NewSlotInit /\ [][NewSlotNext]_vars

\* C19: for every u64 height h, those of the upper half included (stored as a
\* negative i64), NewSlot::new(spec, h, c).height() is h, and
\* validators_count() is the count passed in.
C19_HeightRoundTrip ==
    /\ new_slot.stage \in {"built", "read"} =>
          /\ new_slot.slot.height \in I64
          /\ new_slot.slot.height < 0 <=> new_slot.arg_height >= 2^(WordBits - 1)
    /\ new_slot.stage = "read" =>
          /\ new_slot.height = {new_slot.arg_height}
          /\ new_slot.validators_count = new_slot.arg_count

\* a height of the upper half was stored as a negative number and read back
C19_Witness ==
    /\ new_slot.stage = "read"
    /\ new_slot.arg_height >= 2^(WordBits - 1)
    /\ new_slot.slot.height < 0
    /\ new_slot.arg_count # {}
    /\ new_slot.height = {new_slot.arg_height}

----------------------------------------------------------------------------
\* inner_get_packed_nft, is_smart_contract_call

\* transactions.len() >= 100
Do100Transactions == 100
\* deployed_contracts >= 10
Deploy10Contracts == 10
\* deployed_contracts >= 50
Deploy50Contracts == 50
\* .filter(|&v| v >= 10)
CallsPerContract == 10
\* .count() >= 10
ContractsCalled == 10

\* recipients (H160), as many as the last flag needs
Contracts == 1..ContractsCalled
NoRecipient == {}
EmptyInput == << >>
SomeInput == <<"b">>

\* A transaction of the address: recipient (None or Some) and input bytes.
TxKinds == [to : {NoRecipient} \cup {{c} : c \in Contracts}, input : {EmptyInput, SomeInput}]

\* Validator::is_validator_slashed: None, Some(false), Some(true)
OptSlashed == {{}, {FALSE}, {TRUE}}

RECURSIVE SumOver(_, _)
SumOver(f, S) ==
    IF S = {} THEN 0
    ELSE LET k == CHOOSE x \in S : TRUE IN f[k] + SumOver(f, S \ {k})

\* transactions.len(), the list given as the number of transactions of each kind
len(txs) == SumOver(txs, TxKinds)

is_smart_contract_call(t) == t.input # EmptyInput

\* PackedNftTypes: the setters, one flag each
zero == {}
set_become_validator(p) == p \cup {"become_validator"}
set_slashed_validator(p) == p \cup {"slashed_validator"}
set_do_100_tansactions(p) == p \cup {"do_100_tansactions"}
set_do_one_transaction(p) == p \cup {"do_one_transaction"}
set_deploy_contract(p) == p \cup {"deploy_contract"}
set_deploy_10_contract(p) == p \cup {"deploy_10_contract"}
set_deploy_50_contract(p) == p \cup {"deploy_50_contract"}
set_do_10_transactions_to_10_contracts(p) == p \cup {"do_10_transactions_to_10_contracts"}

\* The loop body, run for the n transactions of one kind t.
LoopBody(acc, t, n) ==
    IF t.to = NoRecipient
    THEN [acc EXCEPT !.deployed_contracts = @ + n]
    ELSE IF is_smart_contract_call(t)
         THEN LET to == CHOOSE c \in t.to : TRUE
                  m == acc.call_count_by_contract
              IN  [acc EXCEPT !.call_count_by_contract =
                      IF to \in DOMAIN m THEN [m EXCEPT ![to] = @ + n]
                      ELSE m @@ (to :> n)]
         ELSE acc

\* for t in transactions.into_iter() { .. }
RECURSIVE Loop(_, _, _)
Loop(txs, S, acc) ==
    IF S = {} THEN acc
    ELSE LET t == CHOOSE x \in S : TRUE
         IN  Loop(txs, S \ {t},
                  IF txs[t] > 0 THEN LoopBody(acc, t, txs[t]) ELSE acc)

deploy_10_AtHundred(n) == n >= Do100Transactions

\* if deployed_contracts >= 10
deploy_10(n) == n >= Deploy10Contracts

\* inner_get_packed_nft, from the two reads of the database
inner_get_packed_nft(opt_validator_slashed, txs) ==
    LET p0 == zero
        p1 == IF opt_validator_slashed # {} THEN set_become_validator(p0) ELSE p0
        p2 == IF TRUE \in opt_validator_slashed THEN set_slashed_validator(p1) ELSE p1
        p3 == IF len(txs) >= Do100Transactions THEN set_do_100_tansactions(p2) ELSE p2
        p4 == IF len(txs) # 0 THEN set_do_one_transaction(p3) ELSE p3
        acc == Loop(txs, TxKinds,
                    [deployed_contracts |-> 0, call_count_by_contract |-> << >>])
        d == acc.deployed_contracts
        m == acc.call_count_by_contract
        p5 == IF d > 0 THEN set_deploy_contract(p4) ELSE p4
        p6 == IF deploy_10(d) THEN set_deploy_10_contract(p5) ELSE p5
        p7 == IF d >= Deploy50Contracts THEN set_deploy_50_contract(p6) ELSE p6
        p8 == IF Cardinality({c \in DOMAIN m : m[c] >= CallsPerContract}) >= ContractsCalled
              THEN set_do_10_transactions_to_10_contracts(p7) ELSE p7
    IN  [packed_nfts |-> p8, deployed_contracts |-> d, call_count_by_contract |-> m]

\* numbers of transactions at and just below a threshold
Around(n) == {n - 1, n}

\* the transactions of the address: deployments with and without init code,
\* plain transfers to one recipient, m calls to each of the first k contracts
Transactions(di, dp, tr, k, m) ==
    [t \in TxKinds |->
        IF t.to = NoRecipient
        THEN IF t.input = EmptyInput THEN dp ELSE di
        ELSE LET c == CHOOSE x \in t.to : TRUE
             IN  IF t.input = EmptyInput
                 THEN IF c = 1 THEN tr ELSE 0
                 ELSE IF c <= k THEN m ELSE 0]

NftInit ==
    /\ SyncIdle
    /\ TableIdle
    /\ new_slot = "none"
    /\ \E v \in OptSlashed,
          di \in {0, 1} \cup Around(Deploy10Contracts) \cup Around(Deploy50Contracts),
          dp \in {0, 1},
          tr \in {0, 1} \cup Around(Do100Transactions),
          k \in {0, 1} \cup Around(ContractsCalled),
          m \in Around(CallsPerContract) :
         nft = [stage |-> "request", validator |-> v,
                transactions |-> Transactions(di, dp, tr, k, m),
                packed_nfts |-> zero, deployed_contracts |-> 0,
                call_count_by_contract |-> << >>]

\* GET /address/<address>/nfts
GetPackedNft ==
    /\ nft.stage = "request"
    /\ LET r == inner_get_packed_nft(nft.validator, nft.transactions)
       IN  nft' = [nft EXCEPT !.stage = "done",
                              !.packed_nfts = r.packed_nfts,
                              !.deployed_contracts = r.deployed_contracts,
                              !.call_count_by_contract = r.call_count_by_contract]
    /\ UNCHANGED <<store, sync, args, calls, new_slot>>

NftNext == GetPackedNft

NftSpec == NftInit /\ [][NftNext]_vars

\* C20: the flags computed by inner_get_packed_nft are nested: do-100 implies
\* do-one; deploy-50 implies deploy-10 implies deploy-contract; slashed implies
\* become-validator; and every transaction with no recipient is counted as a
\* deployment and none of them as a call to a contract.
C20_FlagsNested ==
    nft.stage = "done" =>
        LET p == nft.packed_nfts
            txs == nft.transactions
        IN  /\ "do_100_tansactions" \in p => "do_one_transaction" \in p
            /\ "deploy_50_contract" \in p => "deploy_10_contract" \in p
            /\ "deploy_10_contract" \in p => "deploy_contract" \in p
            /\ "slashed_validator" \in p => "become_validator" \in p
            /\ nft.deployed_contracts =
                   SumOver(txs, {t \in TxKinds : t.to = NoRecipient})
            /\ \A c \in Contracts :
                   LET n == txs[[to |-> {c}, input |-> SomeInput]]
                   IN  IF n = 0 THEN c \notin DOMAIN nft.call_count_by_contract
                       ELSE /\ c \in DOMAIN nft.call_count_by_contract
                            /\ nft.call_count_by_contract[c] = n
            /\ DOMAIN nft.call_count_by_contract \subseteq Contracts

\* an address with every flag of the claim set, with deployments that carry
\* input bytes among its transactions, and calls to contracts beside them
C20_Witness ==
    /\ nft.stage = "done"
    /\ {"do_100_tansactions", "do_one_transaction", "deploy_50_contract",
        "deploy_10_contract", "deploy_contract", "slashed_validator",
        "become_validator"} \subseteq nft.packed_nfts
    /\ nft.transactions[[to |-> NoRecipient, input |-> SomeInput]] = Deploy50Contracts
    /\ nft.deployed_contracts > Deploy50Contracts
    /\ DOMAIN nft.call_count_by_contract # {}

----------------------------------------------------------------------------
\* Properties of sync_to_head

\* a pass has returned and its outcome has been matched by the loop
PassEnded == pc = "tick" /\ result # "none"

\* the pass got the node head from get_node_height (chain_height is assigned)
HeadObserved == pc = "create_new_entry" \/ (PassEnded /\ result # "NodeError")

\* C1: a pass that reports success with from_height <= chain_height (equality
\* included) leaves an entry at every height of [from_height, chain_height].
C1_RangeCompleteness ==
    (PassEnded /\ result = "Ok" /\ from_height <= chain_height)
        => \A h \in from_height..chain_height : store[h] # NoEntry

\* the last pass stored heights from_height..height-1 and then failed at `height`
FailedAfterPersisting ==
    PassEnded /\ result \in CreateErrors /\ height > from_height

ColdStart ==
    IF fromParam # {} THEN CHOOSE h \in fromParam : TRUE
    ELSE IF Stored(store) # {} THEN DbMax(store) + 1 ELSE 0

\* C3: the first pass starts at `from` when it is given, otherwise at the
\* Store's maximum height + 1 when the Store is non-empty and at 0 when it is empty.
C3_ColdStart ==
    [][(pc = "tick" /\ result = "none" /\ pc' = "get_node_height")
          => from_height' = ColdStart]_vars

C5_PendingOrMissingAborts ==
    entry \in {"PendingBlock", "NothingAtHeight"} =>
        /\ PassEnded
        /\ result = entry
        /\ slot = NoEntry
        /\ \A h \in Heights : h >= height => store[h] = store0[h]
        /\ \A h \in Heights : store0[h] # NoEntry => store[h] = store0[h]

\* a pass wrote a new row and then aborted on a pending block, above an older row
C5_Witness ==
    /\ entry = "PendingBlock"
    /\ height > from_height
    /\ store0[height - 1] = NoEntry
    /\ store[height - 1] # NoEntry
    /\ \E h \in Heights : h < from_height /\ store0[h] # NoEntry

\* C6: at most one pass runs at any time; a pass runs exactly while the loop is
\* suspended inside bump, also when ticks elapse during the pass.
C6_NonOverlap ==
    /\ running <= 1
    /\ running = 1 <=> pc \in {"get_node_height", "create_new_entry"}

\* a pass is still running when the next tick is already due
C6_Witness ==
    /\ running = 1
    /\ pc = "create_new_entry"
    /\ height > from_height
    /\ ticksDue > 0

\* C7: a failed pass never ends sync_to_head: the loop is back at
\* sync_interval.tick() with the failure reported, the next due tick can start a
\* pass, and a pass is started.
C7_LoopSurvivesFailure ==
    /\ [](pc # "returned")
    /\ []((PassEnded /\ result # "Ok" /\ ticksDue > 0) => ENABLED Tick)
    /\ (PassEnded /\ result # "Ok") ~> (pc = "get_node_height")

\* a pass failed on a store write after writing rows, and the loop waits for
\* the next tick
C7_Witness ==
    /\ PassEnded
    /\ result = "StorageError"
    /\ height > from_height

\* C8: once the node head is fixed and nothing fails, the Store eventually
\* holds the head, whatever the Store's maximum height is below it.
C8_ReachesHead ==
    (stable /\ pc \notin {"start", "panicked"} /\ (Stored(store) = {} \/ DbMax(store) < nodeHead))
        ~> (store[nodeHead] # NoEntry)

\* C9 (as stated): the Store has no gap below its maximum height, for any `from`.
C9_GapFree == GapFree(store)

\* every height below the `from` argument is stored (true when `from` is None)
BelowFromStored ==
    \A f \in fromParam : \A h \in Heights : h < f => store[h] # NoEntry

\* C9 (amended): a Store that is gap-free when sync_to_head starts has no gap
\* below its maximum height whenever every height below the caller-supplied
\* `from` is stored; this is so in every state when `from` is None or at most
\* the initial maximum height + 1. With a larger `from` the heights between
\* the initial maximum and `from` stay without an entry until a pass starts at 0.
C9_GapFreeBelowFrom == BelowFromStored => GapFree(store)

\* passes have extended the table from an explicit `from` without leaving a gap
C9_Witness ==
    /\ BelowFromStored
    /\ GapFree(store)
    /\ fromParam # {}
    /\ from = {}
    /\ PassEnded
    /\ \E h \in Heights : h > 0 /\ fromParam = {h} /\ store0[h] = NoEntry /\ store[h] # NoEntry

\* C10: a stored entry is never changed or removed by a later step.
C10_EntriesNeverUpdated ==
    [][\A h \in Heights : store[h] # NoEntry => store'[h] = store[h]]_vars

\* create_new_entry succeeded for a height that was already stored, with data
\* that differs from the stored entry
C10_Witness ==
    /\ entry = "Ok"
    /\ height > from_height
    /\ store0[height - 1] # NoEntry
    /\ slot # store[height - 1]

\* the start a pass without `from` should resolve from the Store
StoreCursorStart == IF Stored(store) = {} THEN 0 ELSE DbMax(store) + 1

\* C12: `from` is used on the first tick only; every later pass resolves its
\* start from the Store's current maximum height (+1), never from `from`,
\* whether the first pass succeeded or failed.
C12_OneTimeOverride ==
    [][(PassEnded /\ pc' = "get_node_height")
          => (from' = {} /\ from_height' = StoreCursorStart)]_vars

\* C13: a pass whose get_db_height fails on a non-empty Store is reported as
\* failed and makes no fetch and no write; start 0 is used only when the Store
\* is empty.
C13_ReadFailureFailsPass ==
    (db_read = "Err" /\ Stored(store0) # {}) =>
        /\ pc # "create_new_entry"
        /\ entry = "none"
        /\ store = store0
        /\ PassEnded => result # "Ok"

\* a step that is the return of a create_new_entry(height) call
CreateReturns == pc = "create_new_entry" /\ (height' # height \/ pc' # pc)

\* C17: within a pass create_new_entry is called one height at a time, first for
\* from_height and then for each next height in increasing order, every call
\* inside [from_height, chain_height]; a failed call ends the pass with its
\* error, with no further call and with the Store as the earlier calls left it.
C17_InOrderBackfill ==
    /\ [](pc = "create_new_entry" =>
            /\ running = 1
            /\ from_height <= height /\ height <= chain_height
            /\ \A h \in from_height..(height - 1) : store[h] # NoEntry)
    /\ [][(pc = "get_node_height" /\ pc' = "create_new_entry")
            => (height' = from_height /\ entry' = "none")]_vars
    /\ [][CreateReturns =>
            \/ /\ entry' = "Ok"
               /\ height' = height + 1
               /\ store'[height] # NoEntry
               /\ \A h \in Heights : h # height => store'[h] = store[h]
               /\ pc' = "tick" <=> height = chain_height
            \/ /\ entry' \in CreateErrors
               /\ height' = height
               /\ pc' = "tick" /\ result' = entry'
               /\ store' = store]_vars

\* a call failed at the third height of a pass after two heights were written
C17_Witness ==
    /\ PassEnded
    /\ entry \in CreateErrors
    /\ height = from_height + 2
    /\ store0[from_height] = NoEntry
    /\ store[from_height] # NoEntry /\ store[from_height + 1] # NoEntry

\* C18: in a pass whose start is above the observed node head, create_new_entry
\* is never called, the Store is unchanged, and the pass reports success with
\* that head.
C18_StoreAheadOfHead ==
    (HeadObserved /\ from_height > chain_height) =>
        /\ PassEnded
        /\ result = "Ok"
        /\ head = {chain_height}
        /\ entry = "none"
        /\ store = store0

\* a pass ended with the Store's maximum height equal to the observed head
C18_Witness ==
    /\ PassEnded
    /\ db_read = "Ok"
    /\ from_height = chain_height + 1
    /\ DbMax(store) = chain_height

\* C14: with a zero interval sync_to_head fails at startup and no pass is ever
\* executed: no Store read, no node-height query, no fetch, no write.
C14_ZeroIntervalIsFatal ==
    interval_duration = 0 =>
        /\ pc \in {"start", "panicked"}
        /\ running = 0
        /\ ticksDue = 0
        /\ db_read = "skipped"
        /\ result = "none"
        /\ entry = "none"
        /\ store = store0

\* sync_to_head was called with a zero interval and has panicked
C14_Witness == interval_duration = 0 /\ pc = "panicked"

====
